---- MODULE Spec2Model ----
(***************************************************************************)
(* A model of src/bikeshare_analysis.py: one analysis round of main()      *)
(* (load_data, the four statistics functions, display_raw_data).           *)
(*                                                                         *)
(* The file holds the residue of an unresolved merge: the lines " main"    *)
(* (97, 332) and "=======" (264) are what is left of the conflict markers, *)
(* and both sides of every conflict are still in the text.  The model      *)
(* reads the file as the statements it contains, in the order and at the   *)
(* indentation they have; the three marker lines are no statements and are *)
(* dropped, and the bodiless "else:" of line 341 does nothing.  So         *)
(*   - load_data runs lines 70-82 and then lines 87-99: the second         *)
(*     read_csv rebinds df, and the returned frame has the columns "month" *)
(*     and "day_of_week" but not "hour";                                   *)
(*   - the def of line 330 rebinds display_raw_data, so the guard of       *)
(*     lines 259-262 belongs to a function no caller reaches;              *)
(*   - a 'yes' answer runs lines 337-340 and then lines 343-348.           *)
(* main() (358-383) calls time_stats, station_stats, trip_duration_stats,  *)
(* user_stats, display_raw_data; times_of_travel .. user_info (265-328)    *)
(* have no caller.  The prompts of get_filters/search_by are not modelled: *)
(* a round starts from a FilterSpec that search_by's loops accept.         *)
(***************************************************************************)
EXTENDS Integers, Sequences, FiniteSets, TLC

VARIABLES
    raw,          \* the rows of the city's CSV file, in file order
    extra,        \* the optional columns the file has: a subset of {"Gender", "Birth Year"}
    month,        \* FilterSpec.month
    day,          \* FilterSpec.day
    caller,       \* "main": the calls of main(); "direct": each function called on load_data's result
    pc,           \* the statement of the round that runs next
    df,           \* the frame load_data returned: [columns, rows]
    time_res,     \* time_stats: outcome and locals
    station_res,  \* station_stats: outcome and locals
    duration_res, \* trip_duration_stats: outcome and locals
    user_res,     \* user_stats: outcome and locals
    index,        \* display_raw_data: index
    answer,       \* display_raw_data: show_data of the last prompt
    page,         \* rows printed by the last prompt's answer
    shown,        \* rows printed since display_raw_data began
    out,          \* the last message display_raw_data printed
    entry         \* index when the last prompt was answered

vars == <<raw, extra, month, day, caller, pc, df, time_res, station_res,
          duration_res, user_res, index, answer, page, shown, out, entry>>

----------------------------------------------------------------------------
(* Bounds *)

\* rows of a loaded dataset in Spec
MaxLen == 3

\* rows of a loaded dataset in SpecPaging
MaxRows == 11

----------------------------------------------------------------------------
(* Configuration constants, lines 7-14 *)

CITY_DATA == {"chicago", "new york city", "washington"}

MONTHS == <<"all", "january", "february", "march", "april", "may", "june">>

DAYS == <<"all", "monday", "tuesday", "wednesday", "thursday", "friday",
          "saturday", "sunday">>

\* calendar.day_name, lowercased by .str.lower(): index 0 is Monday
DayNames == <<"monday", "tuesday", "wednesday", "thursday", "friday",
              "saturday", "sunday">>

Range(s) == {s[i] : i \in DOMAIN s}

Min(a, b) == IF a <= b THEN a ELSE b

\* list.index(x): the 0-based position of the first x
ListIndex(list, x) ==
    (CHOOSE i \in DOMAIN list :
        list[i] = x /\ \A j \in 1..(i - 1) : list[j] # x) - 1

----------------------------------------------------------------------------
(* Timestamps: pd.to_datetime's value, as [year, month, day, hour] *)

\* Timestamp.dayofweek (Monday = 0) of a Gregorian date
DayOfWeek(ts) ==
    LET t  == <<0, 3, 2, 5, 0, 3, 5, 1, 4, 6, 2, 4>>
        y  == IF ts.month < 3 THEN ts.year - 1 ELSE ts.year
        su == (y + (y \div 4) - (y \div 100) + (y \div 400) + t[ts.month] + ts.day) % 7
    IN (su + 6) % 7

\* .dt.month
MonthOf(ts) == ts.month

\* .dt.day_name().str.lower()
DayNameOf(ts) == DayNames[DayOfWeek(ts) + 1]

\* .dt.hour
HourOf(ts) == ts.hour

----------------------------------------------------------------------------
(* Frames *)

BaseColumns == {"Start Time", "Trip Duration", "Start Station", "End Station",
                "User Type"}

\* NaN in a "Birth Year" cell
NaNYear == -1

\* NaN in a "Gender" cell
NaNText == "nan"

Stamp(y, m, d, h) == [year |-> y, month |-> m, day |-> d, hour |-> h]

Trip(ts, dur, from, to, ut, g, by) ==
    [c \in BaseColumns \cup {"Gender", "Birth Year"} |->
        CASE c = "Start Time"    -> ts
          [] c = "Trip Duration" -> dur
          [] c = "Start Station" -> from
          [] c = "End Station"   -> to
          [] c = "User Type"     -> ut
          [] c = "Gender"        -> g
          [] c = "Birth Year"    -> by]

\* The trips datasets are built from: a Friday in June, a Monday and a Friday
\* in January, a Monday in July
TripList ==
    << Trip(Stamp(2017, 6, 30, 17), 3661, "State St", "Canal St", "Subscriber", "Male", 1990),
       Trip(Stamp(2017, 1, 2, 8), 125, "Canal St", "State St", "Customer", "Female", NaNYear),
       Trip(Stamp(2017, 1, 6, 8), 59, "Canal St", "Canal St", "Subscriber", NaNText, 1980),
       Trip(Stamp(2017, 7, 3, 23), 0, "State St", "State St", "Customer", "Male", 1990) >>

TripUniverse == Range(TripList)

Project(r, cols) == [c \in cols |-> r[c]]

\* sequences over S of length 0..n
SeqUpTo(S, n) == UNION {[1..k -> S] : k \in 0..n}

\* pd.read_csv(CITY_DATA[city]), lines 70 and 87
read_csv == [columns |-> BaseColumns \cup extra, rows |-> raw]

\* df[name] = values: the frame with the column set, row by row
WithColumn(frame, name, values) ==
    [columns |-> frame.columns \cup {name},
     rows    |-> [i \in DOMAIN frame.rows |->
                    [c \in frame.columns \cup {name} |->
                        IF c = name THEN values[i] ELSE frame.rows[i][c]]]]

\* df['Start Time'].dt.month, lines 74 and 90
MonthSeries(frame) == [i \in DOMAIN frame.rows |-> MonthOf(frame.rows[i]["Start Time"])]

\* df['Start Time'].dt.day_name().str.lower(), lines 75 and 91
DaySeries(frame) == [i \in DOMAIN frame.rows |-> DayNameOf(frame.rows[i]["Start Time"])]

\* df['Start Time'].dt.hour, line 76
HourSeries(frame) == [i \in DOMAIN frame.rows |-> HourOf(frame.rows[i]["Start Time"])]

\* df[mask]: the rows whose mask entry is True, in order
RECURSIVE MaskRows(_, _)
MaskRows(rows, mask) ==
    IF rows = <<>> THEN <<>>
    ELSE IF Head(mask) THEN <<Head(rows)>> \o MaskRows(Tail(rows), Tail(mask))
         ELSE MaskRows(Tail(rows), Tail(mask))

\* MONTHS.index(month), lines 81 and 94
MonthIndexZeroBased(m) == ListIndex(MONTHS, m) - 1
MonthIndex(m) == ListIndex(MONTHS, m)

\* df['month'] == month_index, lines 82 and 95
MonthMask(frame, m) == [i \in DOMAIN frame.rows |-> frame.rows[i]["month"] = MonthIndex(m)]

\* df['day_of_week'] == day, line 99
DayMask(frame, d) == [i \in DOMAIN frame.rows |-> frame.rows[i]["day_of_week"] = d]

\* df[df['month'] == month_index], lines 82 and 95
FilterMonth(frame, m) ==
    [frame EXCEPT !.rows = MaskRows(frame.rows, MonthMask(frame, m))]

FirstMatchOnly(frame, d) ==
    LET kept == MaskRows(frame.rows, DayMask(frame, d))
    IN [frame EXCEPT !.rows = IF kept = <<>> THEN <<>> ELSE <<Head(kept)>>]
\* df[df['day_of_week'] == day], line 99
FilterDay(frame, d) ==
    [frame EXCEPT !.rows = MaskRows(frame.rows, DayMask(frame, d))]

\* lines 70-76
Decorated1 ==
    LET m == WithColumn(read_csv, "month", MonthSeries(read_csv))
        d == WithColumn(m, "day_of_week", DaySeries(m))
    IN WithColumn(d, "hour", HourSeries(d))

\* lines 87-91
Decorated2 ==
    LET m == WithColumn(read_csv, "month", MonthSeries(read_csv))
    IN WithColumn(m, "day_of_week", DaySeries(m))

\* load_data, lines 70-101
load_data(m, d) ==
    LET first  == IF m # "all" THEN FilterMonth(Decorated1, m) ELSE Decorated1
        second == Decorated2
        bymon  == IF m # "all" THEN FilterMonth(second, m) ELSE second
        byday  == IF d # "all" THEN FilterDay(bymon, d) ELSE bymon
    IN byday

Pending == [outcome |-> "pending"]

EmptyFrame == [columns |-> {}, rows |-> <<>>]

InitWith(datasets) ==
    /\ extra \in {{}, {"Gender", "Birth Year"}}
    /\ \E rows \in datasets : raw = [i \in DOMAIN rows |-> Project(rows[i], BaseColumns \cup extra)]
    /\ month \in Range(MONTHS)
    /\ day \in Range(DAYS)
    /\ caller \in {"main", "direct"}
    /\ pc = "load_data"
    /\ df = EmptyFrame
    /\ time_res = Pending
    /\ station_res = Pending
    /\ duration_res = Pending
    /\ user_res = Pending
    /\ index = 0
    /\ answer = "none"
    /\ page = <<>>
    /\ shown = <<>>
    /\ out = "none"
    /\ entry = 0

Init == InitWith(SeqUpTo(TripUniverse, MaxLen))

\* main, line 361
LoadData ==
    /\ pc = "load_data"
    /\ df' = load_data(month, day)
    /\ pc' = "time_stats"
    /\ UNCHANGED <<raw, extra, month, day, caller, time_res, station_res,
                   duration_res, user_res, index, answer, page, shown, out, entry>>

----------------------------------------------------------------------------
(* Series helpers *)

\* df[name]: the column's values in row order
Column(frame, name) == [i \in DOMAIN frame.rows |-> frame.rows[i][name]]

\* the number of cells of a column equal to v
Count(col, v) == Cardinality({i \in DOMAIN col : col[i] = v})

\* the non-NaN values of a column
Values(col, nan) == Range(col) \ {nan}

\* the values of a column that occur most often (NaN dropped)
Modes(col, nan) ==
    {v \in Values(col, nan) : \A w \in Values(col, nan) : Count(col, w) <= Count(col, v)}

\* The strings of the datasets in Python's str order (by code point)
SortedStrings ==
    <<"Canal St", "Customer", "Female", "Male", "State St", "Subscriber",
      "friday", "monday", "saturday", "sunday", "thursday", "tuesday", "wednesday">>

StrLess(a, b) == ListIndex(SortedStrings, a) < ListIndex(SortedStrings, b)

\* Series.mode()[0] of an integer column: mode() returns the modes sorted
\* ascending, [0] is the least of them
ModeInt(col, nan) == CHOOSE v \in Modes(col, nan) : \A w \in Modes(col, nan) : v <= w

\* the position of the first cell of a column equal to v
FirstAt(col, v) == CHOOSE i \in DOMAIN col : col[i] = v /\ \A j \in 1..(i - 1) : col[j] # v

FirstSeenStr(col, nan) ==
    CHOOSE v \in Modes(col, nan) : \A w \in Modes(col, nan) : FirstAt(col, v) <= FirstAt(col, w)
\* Series.mode()[0] of a string column
ModeStr(col, nan) ==
    CHOOSE v \in Modes(col, nan) : \A w \in Modes(col, nan) : v = w \/ StrLess(v, w)

\* Series.value_counts(): the count of every non-NaN value
ValueCounts(col, nan) == [v \in Values(col, nan) |-> Count(col, v)]

\* the (Start Station, End Station) key of every row, in row order
PairColumn(frame) ==
    [i \in DOMAIN frame.rows |->
        <<frame.rows[i]["Start Station"], frame.rows[i]["End Station"]>>]

\* the order groupby sorts its keys in: tuples, lexicographically
PairLess(p, q) == StrLess(p[1], q[1]) \/ (p[1] = q[1] /\ StrLess(p[2], q[2]))

\* the keys whose group is of maximum size
LargestGroups(frame) ==
    LET col == PairColumn(frame)
    IN {p \in Range(col) : \A q \in Range(col) : Count(col, q) <= Count(col, p)}

FirstSeenGroup(frame) ==
    LET col == PairColumn(frame)
    IN CHOOSE p \in LargestGroups(frame) :
          \A q \in LargestGroups(frame) : FirstAt(col, p) <= FirstAt(col, q)
\* df.groupby(['Start Station', 'End Station']).size().idxmax(), lines 150 and 289:
\* size() is indexed by the sorted keys, idxmax() is the first maximum
GroupIdxMax(frame) ==
    CHOOSE p \in LargestGroups(frame) :
        \A q \in LargestGroups(frame) : p = q \/ PairLess(p, q)

\* np.sum of an integer column
RECURSIVE SumOf(_)
SumOf(col) == IF col = <<>> THEN 0 ELSE Head(col) + SumOf(Tail(col))

\* calendar.month_name[1..12]
MonthName == <<"January", "February", "March", "April", "May", "June", "July",
               "August", "September", "October", "November", "December">>

\* str.title() of a lowercase day name
Title(s) ==
    CASE s = "monday"    -> "Monday"
      [] s = "tuesday"   -> "Tuesday"
      [] s = "wednesday" -> "Wednesday"
      [] s = "thursday"  -> "Thursday"
      [] s = "friday"    -> "Friday"
      [] s = "saturday"  -> "Saturday"
      [] s = "sunday"    -> "Sunday"

----------------------------------------------------------------------------
(* The statistics functions *)

NoData == [outcome |-> "no_data"]

Raised(e) == [outcome |-> "raised", error |-> e]

Unguarded(frame) == FALSE
\* DataFrame.empty, lines 114, 141, 175, 213
IsEmpty(frame) == frame.rows = <<>>

\* time_stats, lines 111-128.  df['hour'] raises KeyError when the frame has
\* no such column; the locals of lines 118-119 are set by then.
time_stats(frame) ==
    IF IsEmpty(frame) THEN NoData
    ELSE IF Len(frame.rows) = 0 THEN Raised("KeyError: 0")  \* mode()[0] of no rows
    ELSE LET popular_month == ModeInt(Column(frame, "month"), NaNYear)
             popular_day   == Title(ModeStr(Column(frame, "day_of_week"), NaNText))
         IN IF "hour" \notin frame.columns
            THEN [outcome |-> "raised", error |-> "KeyError: 'hour'",
                  popular_month |-> popular_month, popular_day |-> popular_day]
            ELSE [outcome |-> "reported",
                  popular_month |-> popular_month, popular_day |-> popular_day,
                  popular_hour  |-> ModeInt(Column(frame, "hour"), NaNYear),
                  month_value   |-> MonthName[popular_month]]

\* station_stats, lines 138-162
station_stats(frame) ==
    IF IsEmpty(frame) THEN NoData
    ELSE IF Len(frame.rows) = 0 THEN Raised("KeyError: 0")  \* mode()[0] of no rows
    ELSE [outcome |-> "reported",
          popular_start_station |-> ModeStr(Column(frame, "Start Station"), NaNText),
          popular_end_station   |-> ModeStr(Column(frame, "End Station"), NaNText),
          combo                 |-> GroupIdxMax(frame)]

CeilingMean(total, n) == (total + n - 1) \div n
\* int(np.mean(column)), line 180: the mean of non-negative integers, truncated
TruncatedMean(total, n) == total \div n

\* trip_duration_stats, lines 172-200
trip_duration_stats(frame) ==
    IF IsEmpty(frame) THEN NoData
    ELSE IF Len(frame.rows) = 0 THEN Raised("ValueError")  \* int() of np.mean of no rows, NaN
    ELSE LET total_duration == SumOf(Column(frame, "Trip Duration"))
             avg_duration   == TruncatedMean(total_duration, Len(frame.rows))
         IN [outcome |-> "reported",
             total_duration |-> total_duration,
             avg_duration   |-> avg_duration,
             total_hours    |-> total_duration \div 3600,
             total_minutes  |-> (total_duration % 3600) \div 60,
             total_seconds  |-> total_duration % 60,
             avg_minutes    |-> avg_duration \div 60,
             avg_seconds    |-> avg_duration % 60]

NotAvailable == [available |-> FALSE]

GenderAlwaysCounted(frame) ==
    [available |-> TRUE,
     counts |-> IF "Gender" \in frame.columns
                THEN ValueCounts(Column(frame, "Gender"), NaNText) ELSE <<>>]
\* user_stats, the gender part: lines 225-232
gender_part(frame) ==
    IF "Gender" \in frame.columns
    THEN [available |-> TRUE, counts |-> ValueCounts(Column(frame, "Gender"), NaNText)]
    ELSE NotAvailable

\* user_stats, the birth year part: lines 235-247
birth_year_part(frame) ==
    IF "Birth Year" \in frame.columns /\ Values(Column(frame, "Birth Year"), NaNYear) # {}
    THEN LET years == Values(Column(frame, "Birth Year"), NaNYear)
         IN [available   |-> TRUE,
             earliest    |-> CHOOSE y \in years : \A z \in years : y <= z,
             most_recent |-> CHOOSE y \in years : \A z \in years : y >= z,
             most_common |-> ModeInt(Column(frame, "Birth Year"), NaNYear)]
    ELSE NotAvailable

\* user_stats, lines 210-250
user_stats(frame) ==
    IF IsEmpty(frame) THEN NoData
    ELSE [outcome    |-> "reported",
          user_types |-> ValueCounts(Column(frame, "User Type"), NaNText),
          gender     |-> gender_part(frame),
          birth_year |-> birth_year_part(frame)]

\* df.iloc[a:b]: the rows at the 0-based positions a <= i < b that exist
Iloc(rows, a, b) == [i \in 1..(Min(b, Len(rows)) - Min(a, Len(rows))) |-> rows[a + i]]

----------------------------------------------------------------------------
(* The round: main, lines 375-379 *)

\* an exception leaves main(); a direct caller goes on to call the next function
After(res, next) ==
    IF res.outcome = "raised" /\ caller = "main" THEN "aborted" ELSE next

TimeStats ==
    /\ pc = "time_stats"
    /\ time_res' = time_stats(df)
    /\ pc' = After(time_res', "station_stats")
    /\ UNCHANGED <<raw, extra, month, day, caller, df, station_res,
                   duration_res, user_res, index, answer, page, shown, out, entry>>

StationStats ==
    /\ pc = "station_stats"
    /\ station_res' = station_stats(df)
    /\ pc' = After(station_res', "trip_duration_stats")
    /\ UNCHANGED <<raw, extra, month, day, caller, df, time_res,
                   duration_res, user_res, index, answer, page, shown, out, entry>>

TripDurationStats ==
    /\ pc = "trip_duration_stats"
    /\ duration_res' = trip_duration_stats(df)
    /\ pc' = After(duration_res', "user_stats")
    /\ UNCHANGED <<raw, extra, month, day, caller, df, time_res,
                   station_res, user_res, index, answer, page, shown, out, entry>>

UserStats ==
    /\ pc = "user_stats"
    /\ user_res' = user_stats(df)
    /\ pc' = After(user_res', "display_raw_data")
    /\ UNCHANGED <<raw, extra, month, day, caller, df, time_res,
                   station_res, duration_res, index, answer, page, shown, out, entry>>

----------------------------------------------------------------------------
(* display_raw_data, lines 330-354 *)

\* line 333
DisplayRawData ==
    /\ pc = "display_raw_data"
    /\ index' = 0
    /\ pc' = "prompt"
    /\ UNCHANGED <<raw, extra, month, day, caller, df, time_res, station_res,
                   duration_res, user_res, answer, page, shown, out, entry>>

\* rows per page, lines 339-340 and 343-344
PageSize == 5

\* show_data == 'yes', lines 336-348: what it prints, the index it leaves and
\* whether it breaks
yes_branch(rows, i) ==
    LET first  == IF i < Len(rows) THEN Iloc(rows, i, i + PageSize) ELSE <<>>  \* 337-339
        i1     == IF i < Len(rows) THEN i + PageSize ELSE i                    \* 340-341
        second == Iloc(rows, i1, i1 + PageSize)                                \* 343
        i2     == i1 + PageSize                                                \* 344
    IN [index |-> i2, page |-> first \o second, stop |-> i2 >= Len(rows)]  \* 345-348

AnswerYes ==
    /\ pc = "prompt"
    /\ LET r == yes_branch(df.rows, index)
       IN /\ index' = r.index
          /\ page' = r.page
          /\ shown' = shown \o r.page
          /\ out' = IF r.stop THEN "No more data to display." ELSE "rows"
          /\ pc' = IF r.stop THEN "done" ELSE "prompt"
    /\ answer' = "yes"
    /\ entry' = index
    /\ UNCHANGED <<raw, extra, month, day, caller, df, time_res, station_res,
                   duration_res, user_res>>

\* lines 349-350
AnswerNo ==
    /\ pc = "prompt"
    /\ answer' = "no"
    /\ entry' = index
    /\ page' = <<>>
    /\ pc' = "done"
    /\ UNCHANGED <<raw, extra, month, day, caller, df, time_res, station_res,
                   duration_res, user_res, index, shown, out>>

\* lines 351-352
AnswerInvalid ==
    /\ pc = "prompt"
    /\ answer' = "invalid"
    /\ entry' = index
    /\ page' = <<>>
    /\ out' = "Invalid input. Please enter 'yes' or 'no'."
    /\ UNCHANGED <<raw, extra, month, day, caller, pc, df, time_res, station_res,
                   duration_res, user_res, index, shown>>

Next ==
    \/ LoadData
    \/ TimeStats
    \/ StationStats
    \/ TripDurationStats
    \/ UserStats
    \/ DisplayRawData
    \/ AnswerYes
    \/ AnswerNo
    \/ AnswerInvalid

Spec == Init /\ [][Next]_vars

\* a dataset of n rows that repeats TripList
PagingDataset(n) == [i \in 1..n |-> TripList[((i - 1) % Len(TripList)) + 1]]

InitPaging == InitWith({PagingDataset(n) : n \in 0..MaxRows})

SpecPaging == InitPaging /\ [][Next]_vars

----------------------------------------------------------------------------
(* Claims *)

Loaded == pc # "load_data"

\* january..june, the months a FilterSpec can select
SixMonths == <<"january", "february", "march", "april", "may", "june">>

\* the rows of the file that a FilterSpec selects, by position
Selected ==
    {i \in DOMAIN raw :
        /\ month = "all" \/ \E k \in DOMAIN SixMonths :
                                SixMonths[k] = month /\ raw[i]["Start Time"].month = k
        /\ day = "all" \/ DayNameOf(raw[i]["Start Time"]) = day}

\* C1: the frame load_data returns holds exactly the rows of the file whose
\* month is the 1-based index of the selected month (any month for 'all') and
\* whose day name is the selected day (any day for 'all'), in file order;
\* with 'all' and 'all' it holds every row of the file.
C1_FilterIsOrderedSubset ==
    Loaded =>
        /\ Len(df.rows) = Cardinality(Selected)
        /\ \A k \in DOMAIN df.rows :
              \E i \in Selected :
                 /\ Cardinality({j \in Selected : j <= i}) = k
                 /\ Project(df.rows[k], BaseColumns \cup extra) = raw[i]
        /\ (month = "all" /\ day = "all") =>
              [k \in DOMAIN df.rows |-> Project(df.rows[k], BaseColumns \cup extra)] = raw

C1_Witness ==
    /\ Loaded
    /\ month = "january" /\ day = "friday"
    /\ Len(raw) = 3 /\ Len(df.rows) = 1
    /\ df.rows[1]["Start Time"] = raw[2]["Start Time"]

\* C8: filtering by day and then by month gives the frame that load_data's
\* month-then-day filtering returns.
C8_FiltersCommute ==
    (Loaded /\ month # "all" /\ day # "all") =>
        /\ df = FilterMonth(FilterDay(Decorated2, day), month)
        /\ df = FilterDay(FilterMonth(Decorated2, month), day)

C8_Witness ==
    /\ Loaded /\ month = "january" /\ day = "monday"
    /\ Len(df.rows) = 1 /\ Len(raw) = 3
    /\ \E i \in DOMAIN raw : raw[i]["Start Time"].month = 7
    /\ \E i \in DOMAIN raw : raw[i]["Start Time"].month = 1
                             /\ DayNameOf(raw[i]["Start Time"]) = "friday"

\* v occurs in col, no value occurs more often, and v's first occurrence is
\* the earliest among the values that occur as often
IsStableMode(col, v) ==
    /\ v \in Range(col)
    /\ \A w \in Range(col) :
          \/ Count(col, w) < Count(col, v)
          \/ Count(col, w) = Count(col, v) /\ FirstAt(col, v) <= FirstAt(col, w)

TimeComputed == time_res.outcome \in {"reported", "raised"}

\* C2 as stated: every most frequent value time_stats and station_stats
\* report is the stable mode of its column.
C2_StableMode ==
    /\ time_res.outcome = "reported" =>
          /\ IsStableMode(Column(df, "month"), time_res.popular_month)
          /\ \E d \in Range(Column(df, "day_of_week")) :
                /\ IsStableMode(Column(df, "day_of_week"), d)
                /\ time_res.popular_day = Title(d)
    /\ station_res.outcome = "reported" =>
          /\ IsStableMode(Column(df, "Start Station"), station_res.popular_start_station)
          /\ IsStableMode(Column(df, "End Station"), station_res.popular_end_station)

\* v occurs in col, no value occurs more often, and v is the least in sort
\* order among the values that occur as often
IsLeastModeInt(col, v) ==
    /\ v \in Range(col)
    /\ \A w \in Range(col) :
          \/ Count(col, w) < Count(col, v)
          \/ Count(col, w) = Count(col, v) /\ v <= w

IsLeastModeStr(col, v) ==
    /\ v \in Range(col)
    /\ \A w \in Range(col) :
          \/ Count(col, w) < Count(col, v)
          \/ Count(col, w) = Count(col, v) /\ ~StrLess(w, v)

\* C2 amended: every most frequent value station_stats reports, and every one
\* time_stats computes (lines 118-119, also when line 120 then raises), over a
\* non-empty frame is, among the values of maximum count, the least in sort
\* order (numbers ascending, strings in str order), wherever they first occur.
C2_LeastMode ==
    /\ TimeComputed =>
          /\ df.rows # <<>>
          /\ IsLeastModeInt(Column(df, "month"), time_res.popular_month)
          /\ \E d \in Range(Column(df, "day_of_week")) :
                /\ IsLeastModeStr(Column(df, "day_of_week"), d)
                /\ time_res.popular_day = Title(d)
    /\ time_res.outcome = "reported" =>
          IsLeastModeInt(Column(df, "hour"), time_res.popular_hour)
    /\ station_res.outcome = "reported" =>
          /\ df.rows # <<>>
          /\ IsLeastModeStr(Column(df, "Start Station"), station_res.popular_start_station)
          /\ IsLeastModeStr(Column(df, "End Station"), station_res.popular_end_station)

\* a tie between "State St", first in the frame, and "Canal St"
C2_Witness ==
    /\ station_res.outcome = "reported"
    /\ Len(df.rows) = 2
    /\ df.rows[1]["Start Station"] = "State St"
    /\ df.rows[2]["Start Station"] = "Canal St"
    /\ station_res.popular_start_station = "Canal St"
    /\ TimeComputed
    /\ df.rows[1]["month"] = 6 /\ df.rows[2]["month"] = 1
    /\ time_res.popular_month = 1

\* C3 as stated: the most frequent trip is a pair of maximum group size, and
\* among those the pair whose first row is earliest.
C3_FirstSeenTrip ==
    station_res.outcome = "reported" =>
        IsStableMode(PairColumn(df), station_res.combo)

\* C3 amended: the most frequent trip is a pair of maximum group size, and
\* among those the least pair in the order of (start, end) tuples.
C3_LeastTrip ==
    station_res.outcome = "reported" =>
        /\ station_res.combo \in Range(PairColumn(df))
        /\ \A q \in Range(PairColumn(df)) :
              \/ Count(PairColumn(df), q) < Count(PairColumn(df), station_res.combo)
              \/ /\ Count(PairColumn(df), q) = Count(PairColumn(df), station_res.combo)
                 /\ ~PairLess(q, station_res.combo)

\* a tie of two pairs, the pair of the first row not the least
C3_Witness ==
    /\ station_res.outcome = "reported"
    /\ Len(df.rows) = 2
    /\ PairColumn(df) = << <<"State St", "Canal St">>, <<"Canal St", "State St">> >>
    /\ station_res.combo = <<"Canal St", "State St">>

StatsDone == pc \in {"display_raw_data", "prompt", "done"}

\* C5: over a frame of no rows, each statistics function ends in its no-data
\* outcome, none raises, and main reaches display_raw_data.
C5_EmptyGivesNoData ==
    (Loaded /\ df.rows = <<>>) =>
        /\ pc # "aborted"
        /\ \A r \in {time_res, station_res, duration_res, user_res} :
              r \in {Pending, NoData}
        /\ pc # "time_stats" => time_res = NoData
        /\ StatsDone => /\ station_res = NoData
                        /\ duration_res = NoData
                        /\ user_res = NoData

C5_Witness ==
    /\ caller = "main" /\ pc = "display_raw_data"
    /\ raw # <<>> /\ df.rows = <<>>
    /\ time_res = NoData /\ station_res = NoData
    /\ duration_res = NoData /\ user_res = NoData

\* C6: the frame load_data returns has the columns month, day_of_week and
\* hour, and time_stats does not raise.
C6_DerivedColumns ==
    Loaded =>
        /\ {"month", "day_of_week", "hour"} \subseteq df.columns
        /\ time_res.outcome # "raised"

\* C7 as stated: with no Gender column, user_stats reports the gender
\* distribution as not available, whatever the number of rows.
C7_NotAvailableAnyRows ==
    (Loaded /\ "Gender" \notin df.columns /\ user_res # Pending) =>
        /\ user_res.outcome = "reported"
        /\ user_res.gender = NotAvailable

\* C7 amended: with no Gender column, user_stats reports the gender
\* distribution as not available for every frame of one row or more; for a
\* frame of no rows it ends in its no-data outcome and reports nothing on
\* gender.
C7_NotAvailableWhenRows ==
    (Loaded /\ "Gender" \notin df.columns /\ user_res # Pending) =>
        IF df.rows = <<>>
        THEN user_res = NoData
        ELSE user_res.outcome = "reported" /\ user_res.gender = NotAvailable

C7_Witness ==
    /\ Loaded /\ "Gender" \notin df.columns
    /\ Len(df.rows) = 2
    /\ user_res.outcome = "reported"
    /\ user_res.gender = NotAvailable

\* the sum of the first k cells of a column
RECURSIVE PrefixSum(_, _)
PrefixSum(col, k) == IF k = 0 THEN 0 ELSE PrefixSum(col, k - 1) + col[k]

\* C9: the total is the sum of the durations, the average is the total
\* divided by the row count and truncated, and the rendered hours, minutes
\* and seconds add up to them with minutes and seconds below 60.
C9_Durations ==
    duration_res.outcome = "reported" =>
        LET n == Len(df.rows)
            r == duration_res
        IN /\ n > 0
           /\ r.total_duration = PrefixSum(Column(df, "Trip Duration"), n)
           /\ r.avg_duration * n <= r.total_duration
           /\ r.total_duration < (r.avg_duration + 1) * n
           /\ r.total_hours * 3600 + r.total_minutes * 60 + r.total_seconds = r.total_duration
           /\ r.total_hours >= 0
           /\ r.total_minutes \in 0..59 /\ r.total_seconds \in 0..59
           /\ r.avg_minutes * 60 + r.avg_seconds = r.avg_duration
           /\ r.avg_minutes >= 0 /\ r.avg_seconds \in 0..59
           /\ r.total_duration = 3661 =>
                 <<r.total_hours, r.total_minutes, r.total_seconds>> = <<1, 1, 1>>
           /\ r.avg_duration = 125 => <<r.avg_minutes, r.avg_seconds>> = <<2, 5>>

\* 3661 s and 125 s: a total of 3786 s over two rows, an average of 1893 s;
\* with a third row of 0 s the mean 1262 is exact, with 59 s it is not
C9_Witness ==
    /\ duration_res.outcome = "reported"
    /\ Len(df.rows) = 3
    /\ duration_res.total_duration = 3845
    /\ duration_res.avg_duration = 1281
    /\ <<duration_res.total_hours, duration_res.total_minutes, duration_res.total_seconds>>
          = <<1, 4, 5>>
    /\ <<duration_res.avg_minutes, duration_res.avg_seconds>> = <<21, 21>>

\* rows c+1 .. min(c+5, n) of the frame
PageAt(c) == SubSeq(df.rows, c + 1, Min(c + 5, Len(df.rows)))

\* C4: a 'yes' at cursor c < n prints rows [c, min(c+5, n)), does not report
\* the end of the data and leaves the cursor at c+5; a 'yes' at c >= n prints
\* no row, reports the end and leaves the cursor at c.
C4_PageRequest ==
    (pc \in {"prompt", "done"} /\ answer = "yes") =>
        IF entry < Len(df.rows)
        THEN /\ page = PageAt(entry)
             /\ index = entry + 5
             /\ out # "No more data to display."
             /\ pc = "prompt"
        ELSE /\ page = <<>>
             /\ index = entry
             /\ out = "No more data to display."
             /\ pc = "done"

\* C10: the cursor of display_raw_data starts at 0 and changes only by +5, on
\* a 'yes' that prints a page; 'no' and an invalid answer leave it as it is.
C10_CursorSteps ==
    [][/\ pc = "display_raw_data" => index' = 0
       /\ (pc = "prompt" /\ index' # index) =>
             /\ index' = index + 5
             /\ answer' = "yes"
             /\ page' # <<>>
             /\ page' = PageAt(index)]_vars
====
